---- MODULE Spec2Model ----
(***************************************************************************)
(* Offline-first sync engine of the todo application: the durable          *)
(* pending-operation store (OfflineStorageService), the connection monitor *)
(* (ConnectionMonitor), the remote write client (SupabaseService), the     *)
(* change-feed client (ElectricClient), the local write path (TodoService) *)
(* and the orchestrator (SyncCoordinator).                                 *)
(*                                                                         *)
(* The program runs on a single-threaded event loop.  One action of the    *)
(* model is one run-to-completion piece of code: the code between two      *)
(* awaits of an async function together with every event listener it calls *)
(* synchronously.  A continuation that waits for an already settled        *)
(* promise is a microtask: it is queued in micro and runs before any timer *)
(* or network callback.                                                    *)
(***************************************************************************)
EXTENDS Integers, Sequences, FiniteSets, TLC

(***************************************************************************)
(* Bounds of the model.                                                    *)
(***************************************************************************)
MaxReplays == 2      \* processPendingOperations calls in flight at once
MaxPolls == 1        \* timer-started checkConnections calls in flight at once
MaxWrites == 1       \* local writes issued by the user in one run
MaxFailureCount == 3 \* highest value a consecutive-failure counter reaches

(***************************************************************************)
(* Program constants.                                                      *)
(***************************************************************************)
maxConsecutiveFailures == 3

Types == {"create", "update", "delete"}
Payloads == {"a", "b"}
NoData == "undefined"
InitIds == {1, 2}          \* todos that exist when the process starts
NewId == 3                 \* the id crypto.randomUUID() hands to addTodo
Ids == InitIds \cup {NewId}
Timestamps == {0, 1}       \* values of Date.now()
Statuses == {"offline", "online", "syncing"}
NoType == "undefined"

Op(type, todoId, data, timestamp) ==
  [type |-> type, todoId |-> todoId, data |-> data, timestamp |-> timestamp]

NoOp == Op("none", 0, NoData, 0)

\* what a local write asks of the remote: the operation without its time
Write(op) == [type |-> op.type, todoId |-> op.todoId, data |-> op.data]

VARIABLES
  \* ConnectionMonitor
  currentStatus, consecutiveElectricFailures, consecutiveSupabaseFailures,
  electricOnline, supabaseOnline, checkInterval,
  \* ElectricClient, its cursor file and its request in flight
  isOnline, syncOffset, syncHandle, syncState, fetch,
  \* the todos table of the local database
  db,
  \* the body of a pull, as parsed from JSON
  rawEntries,
  \* SyncCoordinator
  syncStatus, isSyncing, syncIntervalTimer,
  \* OfflineStorageService and its file
  pendingOperations, store,
  \* asynchronous activity of the event loop
  polls, replays, sync, force, write, micro, initPc,
  \* the user and the upstreams
  writesLeft, newIdUsed, writeStable,
  \* history: the local writes reported as successful to the caller whose
  \* remote write has not been confirmed
  unconfirmedWrites,
  \* history: the calls of checkConnections in flight, in the order of their
  \* start, and whether a call has written its results after a later one
  checks,
  \* what the last step did
  obs

vars == <<currentStatus, consecutiveElectricFailures, consecutiveSupabaseFailures,
          electricOnline, supabaseOnline, checkInterval, isOnline,
          syncOffset, syncHandle, syncState, fetch, db, rawEntries,
          syncStatus, isSyncing, syncIntervalTimer,
          pendingOperations, store,
          polls, replays, sync, force, write, micro, initPc,
          writesLeft, newIdUsed, writeStable, unconfirmedWrites, checks, obs>>

St ==
  [currentStatus |-> currentStatus,
   consecutiveElectricFailures |-> consecutiveElectricFailures,
   consecutiveSupabaseFailures |-> consecutiveSupabaseFailures,
   electricOnline |-> electricOnline, supabaseOnline |-> supabaseOnline,
   checkInterval |-> checkInterval, isOnline |-> isOnline,
   syncOffset |-> syncOffset, syncHandle |-> syncHandle,
   syncState |-> syncState, fetch |-> fetch, db |-> db,
   rawEntries |-> rawEntries,
   syncStatus |-> syncStatus, isSyncing |-> isSyncing,
   syncIntervalTimer |-> syncIntervalTimer,
   pendingOperations |-> pendingOperations, store |-> store,
   polls |-> polls, replays |-> replays, sync |-> sync, force |-> force,
   write |-> write, micro |-> micro, initPc |-> initPc,
   writesLeft |-> writesLeft, newIdUsed |-> newIdUsed,
   writeStable |-> writeStable, unconfirmedWrites |-> unconfirmedWrites,
   checks |-> checks, obs |-> obs]

Apply(s) ==
  /\ currentStatus' = s.currentStatus
  /\ consecutiveElectricFailures' = s.consecutiveElectricFailures
  /\ consecutiveSupabaseFailures' = s.consecutiveSupabaseFailures
  /\ electricOnline' = s.electricOnline
  /\ supabaseOnline' = s.supabaseOnline
  /\ checkInterval' = s.checkInterval
  /\ isOnline' = s.isOnline
  /\ syncOffset' = s.syncOffset
  /\ syncHandle' = s.syncHandle
  /\ syncState' = s.syncState
  /\ fetch' = s.fetch
  /\ db' = s.db
  /\ rawEntries' = s.rawEntries
  /\ syncStatus' = s.syncStatus
  /\ isSyncing' = s.isSyncing
  /\ syncIntervalTimer' = s.syncIntervalTimer
  /\ pendingOperations' = s.pendingOperations
  /\ store' = s.store
  /\ polls' = s.polls
  /\ replays' = s.replays
  /\ sync' = s.sync
  /\ force' = s.force
  /\ write' = s.write
  /\ micro' = s.micro
  /\ initPc' = s.initPc
  /\ checks' = s.checks
  /\ writesLeft' = s.writesLeft
  /\ newIdUsed' = s.newIdUsed
  /\ writeStable' = s.writeStable
  /\ unconfirmedWrites' = s.unconfirmedWrites
  /\ obs' = s.obs

(***************************************************************************)
(* What a step reports: its name, the events it emitted, and the outcome   *)
(* of the call it made.  obs is rewritten by every step.                   *)
(***************************************************************************)
NoResult == [total |-> 0, processed |-> 0, succeeded |-> 0, failed |-> 0]

NoObs ==
  [step |-> "none", events |-> <<>>, threw |-> FALSE, r |-> 0, op |-> NoOp,
   outcome |-> "none", removed |-> 0, index |-> 0, result |-> NoResult,
   out |-> <<>>, watch |-> {}, overflow |-> FALSE]

\* The state a step starts from.  Only the steps a property has to tell apart
\* leave their name in obs.
NamedSteps ==
  {"enqueue", "remove", "restart", "poll", "pull", "apply", "decode", "forceSync",
   "cycle", "list"}

Begin(name) ==
  [St EXCEPT !.obs = [NoObs EXCEPT !.step = IF name \in NamedSteps THEN name ELSE "none",
                                   !.watch = obs.watch]]


\* obs.watch, set once in the initial state, names what else a run records:
\* "cycle" for the outcome of each step of a pull-and-apply cycle, "poll"
\* for the probe results of each poll and the events of the two upstreams.
Watching(s, what) == what \in s.obs.watch

\* obs.events keeps the aggregate status-change events of the monitor; a
\* run that watches the polls keeps the events of the two upstreams in the
\* record of the poll
Emit(s, ev) ==
  IF ev.name = "status-change" THEN [s EXCEPT !.obs.events = Append(@, ev)]
  ELSE IF Watching(s, "poll")
            /\ ev.name \in {"electric-status-change", "supabase-status-change"}
         THEN [s EXCEPT !.obs.out.emitted = Append(@, ev)]
         ELSE s

Throw(s) == [s EXCEPT !.obs.threw = TRUE]

Catch(s) == [s EXCEPT !.obs.threw = FALSE]

\* the step would take the model past one of its bounds
Overflow(s) == [s EXCEPT !.obs.overflow = TRUE]

(***************************************************************************)
(* OfflineStorageService: the queue of pending operations and its file.    *)
(* The file is missing, unreadable as JSON, or holds a serialized queue.   *)
(***************************************************************************)
MissingStore == [kind |-> "missing", ops |-> <<>>]
CorruptStore == [kind |-> "corrupt", ops |-> <<>>]
JsonStore(ops) == [kind |-> "json", ops |-> ops]

\* fs.writeFileSync of the whole queue; ok = FALSE is a failed write, which
\* savePendingOperations rethrows as OfflineError
SavePendingOperationsNowhere(s, ok) == IF ok THEN s ELSE Throw(s)

SavePendingOperations(s, ok) ==
  IF ok THEN [s EXCEPT !.store = JsonStore(s.pendingOperations)]
        ELSE Throw(s)

\* existsSync / readFileSync / JSON.parse, every failure caught
LoadPendingOperations(file) ==
  IF file.kind = "json" THEN file.ops ELSE <<>>

\* Array.prototype.findIndex, 1-based; 0 stands for -1
FindIndexNothing(q, type, todoId) == 0

FindIndex(q, type, todoId) ==
  IF \E i \in 1..Len(q) : q[i].todoId = todoId /\ q[i].type = type
    THEN CHOOSE i \in 1..Len(q) :
           /\ q[i].todoId = todoId /\ q[i].type = type
           /\ \A j \in 1..(i - 1) : ~(q[j].todoId = todoId /\ q[j].type = type)
    ELSE 0

\* the types whose operation must carry data
RequiresDataNever(type) == FALSE

RequiresData(type) == type \in {"create", "update"}

AddPendingOperation(s, type, todoId, data, timestamp, ok) ==
  IF RequiresData(type) /\ data = NoData
    THEN Throw([s EXCEPT !.obs.out = [call |-> Op(type, todoId, data, 0)]])
    ELSE LET operation == Op(type, todoId, data, timestamp)
             existingIndex == FindIndex(s.pendingOperations, type, todoId)
             q == IF existingIndex >= 1
                    THEN [s.pendingOperations EXCEPT ![existingIndex] = operation]
                    ELSE Append(s.pendingOperations, operation)
         IN  SavePendingOperations(
               [s EXCEPT !.pendingOperations = q, !.obs.op = operation,
                         !.obs.out = [call |-> Op(type, todoId, data, 0)],
                         !.obs.index = existingIndex], ok)

ClearPendingOperation(s, todoId, type, ok) ==
  LET initialCount == Len(s.pendingOperations)
      KeepTyped(op) == ~(op.todoId = todoId /\ op.type = type)
      KeepOthers(op) == op.todoId # todoId
      q == IF type # NoType THEN SelectSeq(s.pendingOperations, KeepTyped)
                            ELSE SelectSeq(s.pendingOperations, KeepOthers)
      clearedCount == initialCount - Len(q)
      s1 == [s EXCEPT !.pendingOperations = q, !.obs.removed = clearedCount]
  IN  IF clearedCount > 0 THEN SavePendingOperations(s1, ok) ELSE s1

GetPendingOperations(s) == s.pendingOperations

\* The array getPendingOperations() hands to its caller: "copy" is a new
\* array with the queue's entries, "queue" the array of the service itself.
SpreadNever(s) == "queue"

Spread(s) == "copy"

\* a caller lists the queue and then changes the array it has received
ListAndChange(s, change) ==
  LET listed == GetPendingOperations(s)
      changed == CASE change = "push" -> Append(listed, NoOp)
                   [] change = "pop" -> SubSeq(listed, 1, Len(listed) - 1)
                   [] change = "reverse" ->
                        [i \in 1..Len(listed) |-> listed[Len(listed) + 1 - i]]
      s1 == [s EXCEPT !.obs.out = [listed |-> listed, changed |-> changed]]
  IN  IF Spread(s) = "queue" THEN [s1 EXCEPT !.pendingOperations = changed] ELSE s1

HasPendingOperations(s) == Len(s.pendingOperations) > 0


(***************************************************************************)
(* ConnectionMonitor, first part: what the coordinator calls.              *)
(***************************************************************************)
Min(a, b) == IF a <= b THEN a ELSE b

StatusEvent(status, previousStatus) ==
  [name |-> "status-change", status |-> status, previousStatus |-> previousStatus]

UpstreamEvent(name, online) ==
  [name |-> name, status |-> IF online THEN "online" ELSE "offline",
   previousStatus |-> IF online THEN "offline" ELSE "online"]

\* checkConnections up to its await: both probes are issued.  The timer can
\* start a poll at any time, so one more unnamed poll in flight than
\* MaxPolls is not told apart from MaxPolls.
\* The history of the calls of checkConnections, kept by the runs that
\* watch the "order": order lists the calls in flight, oldest first, each
\* by its caller ("poll" for the timer, start() and syncCompleted(),
\* "force" for forceCheck()), with the mark "written" at the place of the
\* call that has written its results last.
NoChecks == [order |-> <<>>, stale |-> FALSE]

Without(order, i) == SubSeq(order, 1, i - 1) \o SubSeq(order, i + 1, Len(order))

Started(s, caller) ==
  IF Watching(s, "order") THEN [s EXCEPT !.checks.order = Append(@, caller)] ELSE s

\* the places of the calls of caller in flight; 0 stands for the call of a
\* run that keeps no history
Places(caller) ==
  IF "order" \in obs.watch
    THEN {i \in 1..Len(checks.order) : checks.order[i] = caller}
    ELSE {0}

\* the call at place i writes its results
Written(s, i) ==
  IF ~Watching(s, "order") THEN s
  ELSE LET order == s.checks.order
           later == \E j \in 1..Len(order) : j > i /\ order[j] = "written"
           rest == Without(order, i)
           NotMark(x) == x # "written"
       IN  [s EXCEPT !.checks =
              IF later
                THEN [order |-> rest, stale |-> TRUE]
                ELSE [order |-> SubSeq(SelectSeq(rest, NotMark), 1,
                                       Len(SelectSeq(SubSeq(order, 1, i - 1), NotMark)))
                                  \o <<"written">>
                                  \o SelectSeq(SubSeq(order, i + 1, Len(order)), NotMark),
                      stale |-> s.checks.stale]]

\* a call of checkConnections up to its await of the two probes; beyond
\* MaxPolls calls of the timer and of syncCompleted() in flight the model
\* takes a new call for the newest of them
CheckConnectionsStart(s) ==
  IF s.polls < MaxPolls THEN Started([s EXCEPT !.polls = @ + 1], "poll") ELSE s

\* setSyncing, with the coordinator's status-change listener: for the
\* status syncing the listener only copies the status
SetSyncing(s) ==
  LET previousStatus == s.currentStatus
      s1 == [s EXCEPT !.currentStatus = "syncing"]
  IN  IF previousStatus # "syncing"
        THEN [Emit(s1, StatusEvent("syncing", previousStatus))
                EXCEPT !.syncStatus = "syncing"]
        ELSE s1

\* syncCompleted: a poll that nobody awaits
SyncCompleted(s) == CheckConnectionsStart(s)

\* ElectricClient.setConnectionStatus
SetConnectionStatus(s, online) == [s EXCEPT !.isOnline = online]

(***************************************************************************)
(* ShapeProcessor.processShapeLogEntries.  The body of a pull is whatever  *)
(* JSON the feed sent: an array or not, of objects or not.  A string is    *)
(* the sequence of its characters.                                         *)
(***************************************************************************)
Quote == "\""
Slash == "/"

\* a property an object does not have, and the null of JSON
Missing == "<missing>"
JsNull == "<null>"

\* JSON values by kind; the fields of a kind that has none are Absent
Absent == "<absent>"

JsonArray(items) == [kind |-> "array", items |-> items]
NotArray(kind) == [kind |-> kind, items |-> <<>>]
EmptyBody == JsonArray(<<>>)

NoHeaders == [kind |-> "undefined", control |-> Absent, operation |-> Absent]
Headers(control, operation) ==
  [kind |-> "object", control |-> control, operation |-> operation]

NoKey == [kind |-> "undefined", chars |-> <<>>]
NumberKey == [kind |-> "number", chars |-> <<>>]
StringKey(chars) == [kind |-> "string", chars |-> chars]

\* an element that is no object: null or a number
Primitive(kind) ==
  [kind |-> kind, headers |-> NoHeaders, key |-> NoKey, value |-> Absent]
RawEntry(headers, key, value) ==
  [kind |-> "object", headers |-> headers, key |-> key, value |-> value]

\* key.split('/') and its last part
RECURSIVE LastPart(_)
LastPart(chars) ==
  IF chars = <<>> THEN <<>>
  ELSE IF \E i \in 2..Len(chars) : chars[i] = Slash THEN LastPart(Tail(chars))
  ELSE IF Head(chars) = Slash THEN Tail(chars)
  ELSE chars

\* idWithQuotes.replace(/"/g, '')
RemoveQuotes(chars) == SelectSeq(chars, LAMBDA c : c # Quote)

\* the id of an entry
ExtractId(key) == RemoveQuotes(LastPart(key.chars))

\* what one turn of the loop does with an element: it throws, skips the
\* element or pushes a processed entry
ProcessEntry(entry) ==
  CASE entry.kind = "null" -> [do |-> "throw"]
    [] entry.kind = "object" /\ entry.headers.kind = "object"
         /\ entry.headers.control # Absent -> [do |-> "skip"]
    [] entry.kind = "object" /\ entry.headers.kind = "object"
         /\ entry.headers.operation # Absent
         /\ entry.key.kind = "number" -> [do |-> "throw"]
    [] entry.kind = "object" /\ entry.headers.kind = "object"
         /\ entry.headers.operation # Absent
         /\ entry.key.kind = "string" /\ entry.key.chars # <<>> ->
         IF ExtractId(entry.key) = <<>>
           THEN [do |-> "skip"]
           ELSE [do |-> "push",
                 entry |-> [operation |-> entry.headers.operation,
                            id |-> ExtractId(entry.key),
                            value |-> IF entry.value = Absent THEN JsNull
                                                              ELSE entry.value]]
    [] OTHER -> [do |-> "skip"]

RECURSIVE ProcessEntries(_, _)
ProcessEntries(results, items) ==
  IF items = <<>> THEN [threw |-> FALSE, results |-> results]
  ELSE LET p == ProcessEntry(Head(items)) IN
       CASE p.do = "throw" -> [threw |-> TRUE, results |-> <<>>]
         [] p.do = "skip" -> ProcessEntries(results, Tail(items))
         [] p.do = "push" -> ProcessEntries(Append(results, p.entry), Tail(items))

\* processShapeLogEntries(entries)
ProcessShapeLogEntries(entries) ==
  IF entries.kind # "array" THEN [threw |-> FALSE, results |-> <<>>]
  ELSE ProcessEntries(<<>>, entries.items)

(***************************************************************************)
(* SyncCoordinator.applyChangesToDb: the decoded entries of a pull are     *)
(* applied to the todos table (id, title NOT NULL, completed, created_at)  *)
(* one statement each, inside one transaction.                             *)
(***************************************************************************)
RowIds == {1, 2}

\* the table is the function from the ids of its rows to the other columns
EmptyDb == <<>>

HasRow(table, id) == id \in DOMAIN table

PutRow(table, id, row) ==
  [i \in DOMAIN table \cup {id} |-> IF i = id THEN row ELSE table[i]]

\* the value of an entry: null or an object with some of the columns
NoValue == [title |-> JsNull, completed |-> JsNull, created_at |-> JsNull]

EntryValues ==
  {NoValue} \cup [title : {Missing, JsNull, "a"},
                  completed : {Missing, "true", "false"},
                  created_at : {Missing, "T0"}]

Entry(operation, id, value) == [operation |-> operation, id |-> id, value |-> value]

\* the instants at which a batch is applied, and new Date().toISOString()
Clock == {1, 2}

ToISOString(now) == IF now = 1 THEN "T1" ELSE "T2"

\* the column written for value.completed
Completed(v) == IF v = "true" THEN 1 ELSE 0

\* the statement of an insert entry: INSERT OR REPLACE of the whole row
InsertRow(value, now) ==
  [title |-> IF value.title \in {Missing, JsNull, ""} THEN "" ELSE value.title,
   completed |-> Completed(value.completed),
   created_at |-> IF value.created_at \in {Missing, JsNull, ""}
                    THEN ToISOString(now) ELSE value.created_at]

\* the statement of an update entry: the columns the value has
UpdateRow(row, value) ==
  [title |-> IF value.title # Missing THEN value.title ELSE row.title,
   completed |-> IF value.completed # Missing THEN Completed(value.completed)
                                               ELSE row.completed,
   created_at |-> IF value.created_at # Missing THEN value.created_at
                                                 ELSE row.created_at]

\* the statement of a delete entry: DELETE FROM todos WHERE id = ?
DeleteRowEvery(table, id) == EmptyDb

DeleteRow(table, id) == [i \in DOMAIN table \ {id} |-> table[i]]

\* the statement of the entry raises an error: an update that sets the
\* title of a row of the table to NULL breaks the NOT NULL constraint
Fails(table, entry) ==
  /\ entry.operation = "update" /\ entry.value # NoValue
  /\ HasRow(table, entry.id) /\ entry.value.title = JsNull

\* one turn of the loop of applyChangesToDb; acc is the table and the
\* three counters.  A statement that fails is undone by the database,
\* and its error is caught and logged.
ApplyEntry(acc, entry, now) ==
  LET hasFields == \E f \in {"title", "completed", "created_at"} :
                     entry.value[f] # Missing
  IN  CASE entry.operation = "insert" /\ entry.value # NoValue ->
             [acc EXCEPT !.db = PutRow(@, entry.id, InsertRow(entry.value, now)),
                         !.inserts = @ + 1]
        [] entry.operation = "update" /\ entry.value # NoValue /\ hasFields
             /\ HasRow(acc.db, entry.id) /\ ~Fails(acc.db, entry) ->
             [acc EXCEPT !.db[entry.id] = UpdateRow(@, entry.value),
                         !.updates = @ + 1]
        [] entry.operation = "delete" /\ HasRow(acc.db, entry.id) ->
             [acc EXCEPT !.db = DeleteRow(@, entry.id), !.deletes = @ + 1]
        [] OTHER -> acc

\* the entries the loop still has to apply after its first one, which has
\* failed or not
RestAfterAbort(failed, entries) == IF failed THEN <<>> ELSE Tail(entries)

RestAfter(failed, entries) == Tail(entries)

RECURSIVE ApplyEntries(_, _, _)
ApplyEntries(acc, entries, now) ==
  IF entries = <<>> THEN acc
  ELSE ApplyEntries(ApplyEntry(acc, Head(entries), now),
                    RestAfter(Fails(acc.db, Head(entries)), entries), now)

\* applyChangesToDb(entries) at the instant now
ApplyChangesToDb(s, entries, now) ==
  LET acc == ApplyEntries([db |-> s.db, inserts |-> 0, updates |-> 0, deletes |-> 0],
                          entries, now)
  IN  [s EXCEPT !.db = acc.db,
                !.obs.out =
                  [entries |-> entries,
                   now |-> now,
                   counts |-> [total |-> acc.inserts + acc.updates + acc.deletes,
                               inserts |-> acc.inserts,
                               updates |-> acc.updates,
                               deletes |-> acc.deletes]]]

\* the guard of notifyRendererDataChanged() in syncWithSupabase
NotifiesOnReceived(result) == result.received > 0

Notifies(result) == result.inserts > 0 \/ result.updates > 0 \/ result.deletes > 0

\* syncWithSupabase from the decoded entries to the sync-completed event:
\* the result of the cycle and whether the renderer is told of a change
ApplyPulled(s, entries, now) ==
  LET s1 == IF Len(entries) > 0
              THEN ApplyChangesToDb(s, entries, now)
              ELSE [s EXCEPT !.obs.out =
                      [entries |-> entries, now |-> now,
                       counts |-> [total |-> 0, inserts |-> 0, updates |-> 0,
                                   deletes |-> 0]]]
      counts == s1.obs.out.counts
      result == [received |-> Len(entries), processed |-> counts.total,
                 inserts |-> counts.inserts, updates |-> counts.updates,
                 deletes |-> counts.deletes]
  IN  [s1 EXCEPT !.obs.out =
         [entries |-> entries, now |-> now, counts |-> counts, result |-> result,
          notified |-> Len(entries) > 0 /\ Notifies(result)]]

(***************************************************************************)
(* ElectricClient: the cursor (syncOffset, syncHandle), the file it is     *)
(* saved in, and fetchShapeLog.  The runs of the whole system leave the    *)
(* cursor out: nothing in the coordinator reads it.  SpecFeed runs the     *)
(* client on its own.                                                      *)
(***************************************************************************)
InitialOffset == "-1"
InitialHandle == ""

\* tokens the feed hands out in its electric-offset and electric-handle
\* headers; NoHeader is the null of headers.get for a header left out
Offsets == {"42", "43"}
Handles == {"h1", "h2"}
NoHeader == "<null>"

Cursor(offset, handle) == [syncOffset |-> offset, syncHandle |-> handle]

\* the truthiness test of if (newOffset) and if (state.syncOffset)
Truthy(v) == v # NoHeader /\ v # ""

MissingState == [kind |-> "missing", syncOffset |-> "", syncHandle |-> ""]
CorruptState == [kind |-> "corrupt", syncOffset |-> "", syncHandle |-> ""]
JsonState(offset, handle) ==
  [kind |-> "json", syncOffset |-> offset, syncHandle |-> handle]

\* saveSyncState: a failed write is logged and swallowed
SaveSyncState(s, ok) ==
  IF ok THEN [s EXCEPT !.syncState = JsonState(s.syncOffset, s.syncHandle)]
        ELSE s

\* loadSyncState: the cursor a start finds in the file
LoadSyncState(file) ==
  LET Valid(v) == Truthy(v) /\ v # "undefined" /\ v # "null" IN
  IF file.kind = "json"
    THEN Cursor(IF Valid(file.syncOffset) THEN file.syncOffset ELSE InitialOffset,
                IF Valid(file.syncHandle) THEN file.syncHandle ELSE InitialHandle)
    ELSE Cursor(InitialOffset, InitialHandle)

\* resetSyncOffset
ResetSyncOffset(s, ok) ==
  SaveSyncState([s EXCEPT !.syncOffset = InitialOffset,
                          !.syncHandle = InitialHandle], ok)

IdleFetch == [pc |-> "idle"]

\* what a request meets: no answer at the transport level, an answer with
\* an error status, or a 2xx answer with its two headers
Responses ==
  {[kind |-> "transport", status |-> 0, offset |-> NoHeader, handle |-> NoHeader]}
  \cup {[kind |-> "status", status |-> c, offset |-> NoHeader, handle |-> NoHeader] :
          c \in {400, 500}}
  \cup {[kind |-> "ok", status |-> 200, offset |-> o, handle |-> h] :
          o \in Offsets \cup {NoHeader}, h \in Handles \cup {NoHeader}}

\* what reading the body of a 2xx answer meets
Bodies == {"json", "malformed", "aborted"}

\* what a pull has met so far: the answer to its request and its body
Answer(response, body) == [response |-> response, body |-> body]

\* fetchShapeLog up to its await of fetch
FetchShapeLogStart(s) ==
  IF ~s.isOnline
    THEN [s EXCEPT !.obs.outcome = "skipped", !.obs.out = Answer("none", "none")]
    ELSE [s EXCEPT !.obs.out = Answer("none", "none"),
                   !.fetch =
            [pc |-> "request", offset |-> s.syncOffset, handle |-> s.syncHandle,
             newOffset |-> NoHeader, newHandle |-> NoHeader,
             before |-> [cursor |-> Cursor(s.syncOffset, s.syncHandle),
                         file |-> s.syncState]]]

\* the catch block of fetchShapeLog marks the client offline
MarksOfflineAlways(kind) == TRUE

MarksOffline(kind) == kind = "transport"

\* fetchShapeLog from the settled fetch to its await of response.json()
FetchShapeLogResponded(s, response, saveOk) ==
  LET s1 == [s EXCEPT !.obs.out =
               Answer(IF response.kind = "status" THEN ToString(response.status)
                                                  ELSE response.kind, "none")]
      failed == [s1 EXCEPT !.fetch = IdleFetch,
                  !.isOnline = IF MarksOffline(response.kind) THEN FALSE ELSE @,
                  !.obs.outcome = IF response.kind = "transport"
                                    THEN "NetworkError" ELSE "ElectricError"]
      s2 == [s1 EXCEPT
               !.syncOffset = IF Truthy(response.offset) THEN response.offset ELSE @,
               !.syncHandle = IF Truthy(response.handle) THEN response.handle ELSE @,
               !.fetch.newOffset = response.offset,
               !.fetch.newHandle = response.handle,
               !.fetch.pc = "json"]
  IN  IF response.kind = "ok" THEN SaveSyncState(s2, saveOk) ELSE failed

\* fetchShapeLog from the settled response.json() to its return: a body
\* that cannot be read or parsed is logged and the result is []
FetchShapeLogRead(s, body) ==
  [s EXCEPT !.fetch.pc = "idle",
            !.obs.out = Answer("ok", body),
            !.obs.outcome = IF body = "json" THEN "entries" ELSE "empty"]

(***************************************************************************)
(* SyncCoordinator.                                                        *)
(***************************************************************************)
IdleReplay ==
  [pc |-> "idle", pendingOps |-> <<>>, allOperations |-> <<>>, i |-> 0,
   previousStatus |-> "offline", cont |-> "none", result |-> NoResult]

IdleSync == [pc |-> "idle", cont |-> "none"]

IdleForce ==
  [pc |-> "idle", isElectricOnline |-> FALSE, isSupabaseOnline |-> FALSE,
   operations |-> NoResult]

IdleWrite == [pc |-> "idle", type |-> "none", todoId |-> 0, data |-> NoData]

Slots == 1..MaxReplays

HasFreeSlot(s) == \E r \in Slots : s.replays[r].pc = "idle"

FreeSlot(s) ==
  CHOOSE r \in Slots :
    /\ s.replays[r].pc = "idle"
    /\ \A q \in Slots : s.replays[q].pc = "idle" => r <= q

\* a settled promise resumes its awaiter in a microtask and hands it value
ResumeWith(s, k, cont, ok, value) ==
  [s EXCEPT !.micro = Append(@, [k |-> k, cont |-> cont, ok |-> ok, value |-> value])]

Resume(s, k, cont, ok) == ResumeWith(s, k, cont, ok, NoResult)

StartPeriodicSync(s) == [s EXCEPT !.syncIntervalTimer = TRUE]

StopPeriodicSync(s) == [s EXCEPT !.syncIntervalTimer = FALSE]

\* what awaits syncWithSupabase: forceSync goes on to set lastSyncTime
AfterSync(s, cont, ok) ==
  IF cont = "force" THEN Resume(s, "afterSync", cont, ok) ELSE s

\* syncWithSupabase up to its first await
SyncWithSupabaseStart(s, cont) ==
  IF s.isSyncing
    THEN AfterSync(s, cont, TRUE)
    ELSE LET s1 == [s EXCEPT !.isSyncing = TRUE, !.syncStatus = "syncing"]
             s2 == SetSyncing(s1)
         IN  IF ~s2.isOnline
               \* fetchShapeLog returns [] without a request
               THEN Resume([s2 EXCEPT !.sync = [pc |-> "entries", cont |-> cont]],
                           "syncEntries", cont, TRUE)
               ELSE [s2 EXCEPT !.sync = [pc |-> "fetch", cont |-> cont]]

\* what a cycle has done in this step: how its pull and its apply went, and
\* whether the cycle has ended
Cycle(s, outcome, ended) ==
  IF Watching(s, "cycle")
    THEN [s EXCEPT !.obs.step = "cycle",
                   !.obs.out = [outcome |-> outcome, ended |-> ended]]
    ELSE s

\* the finally block of syncWithSupabase
ClearIsSyncingNever(s) == s

ClearIsSyncing(s) == [s EXCEPT !.isSyncing = FALSE]

\* syncWithSupabase from the entries to its return; applyOk = FALSE is a
\* failed local transaction, rethrown as a SyncError
SyncWithSupabaseFinish(s, applyOk) ==
  LET cont == s.sync.cont IN
  IF applyOk
    THEN LET s2 == SyncCompleted(s)
             s3 == ClearIsSyncing([s2 EXCEPT !.syncStatus = s2.currentStatus,
                                             !.sync = IdleSync])
         IN  AfterSync(Cycle(s3, "entries", TRUE), cont, TRUE)
    ELSE LET s2 == ClearIsSyncing([s EXCEPT !.syncStatus = s.currentStatus,
                                            !.sync = IdleSync])
         IN  AfterSync(Cycle(s2, "SyncError", TRUE), cont, FALSE)

\* the errors after which the catch block of syncWithSupabase awaits
\* forceCheck()
RechecksAlways(outcome) == TRUE

Rechecks(outcome) == outcome = "NetworkError"

\* the catch block of syncWithSupabase for an error of fetchShapeLog or of
\* processShapeLogEntries, which throws an ElectricError as well
SyncWithSupabaseFailed(s, outcome) ==
  IF Rechecks(outcome)
    \* fetchShapeLog marks the client offline; the cycle awaits forceCheck()
    THEN Started(Cycle([s EXCEPT !.isOnline = FALSE, !.sync.pc = "forceCheck"],
                       outcome, FALSE), "force")
    ELSE LET s2 == ClearIsSyncing([s EXCEPT !.syncStatus = s.currentStatus,
                                            !.sync = IdleSync])
         IN  AfterSync(Cycle(s2, outcome, TRUE), s.sync.cont, FALSE)

\* what awaits processPendingOperations; the listener of status-change
\* drops the result, forceSync keeps it
AfterReplay(s, cont, result) ==
  IF cont = "none" THEN s
  ELSE ResumeWith(s, "afterReplay", cont, TRUE,
                  IF cont = "force" THEN result ELSE NoResult)

\* creates before updates before deletes
AllOperationsUpdatesFirst(pendingOps) ==
  LET IsCreate(op) == op.type = "create"
      IsUpdate(op) == op.type = "update"
      IsDelete(op) == op.type = "delete"
  IN  SelectSeq(pendingOps, IsUpdate) \o SelectSeq(pendingOps, IsCreate)
        \o SelectSeq(pendingOps, IsDelete)

AllOperations(pendingOps) ==
  LET IsCreate(op) == op.type = "create"
      IsUpdate(op) == op.type = "update"
      IsDelete(op) == op.type = "delete"
  IN  SelectSeq(pendingOps, IsCreate) \o SelectSeq(pendingOps, IsUpdate)
        \o SelectSeq(pendingOps, IsDelete)

ResultEvent(result) ==
  [name |-> "pending-operations-processed", status |-> "online",
   previousStatus |-> "online"]

\* processPendingOperations up to its first await, in replay slot r
ProcessPendingOperationsStart(s, cont) ==
  LET pendingOps == GetPendingOperations(s) IN
  IF Len(pendingOps) = 0
    THEN AfterReplay(Emit(s, ResultEvent(NoResult)), cont, NoResult)
    ELSE IF ~HasFreeSlot(s) THEN Overflow(s)
    ELSE LET r == FreeSlot(s)
             previousStatus == s.syncStatus
             s1 == SetSyncing([s EXCEPT !.syncStatus = "syncing"])
         IN  [s1 EXCEPT !.replays[r] =
                [pc |-> "probe", pendingOps |-> pendingOps, allOperations |-> <<>>,
                 i |-> 0, previousStatus |-> previousStatus, cont |-> cont,
                 result |-> [NoResult EXCEPT !.total = Len(pendingOps)]]]

\* the end of processPendingOperations after the loop
ProcessPendingOperationsFinish(s, r) ==
  LET result == s.replays[r].result
      s1 == SyncCompleted(s)
      s2 == [s1 EXCEPT !.syncStatus = s1.currentStatus, !.replays[r] = IdleReplay,
                       !.obs.result = result]
  IN  AfterReplay(Emit(s2, ResultEvent(result)), s.replays[r].cont, result)

\* the result of the connection check that opens a replay
ProcessPendingOperationsProbed(s, r, isConnected) ==
  LET rp == s.replays[r] IN
  IF ~isConnected
    THEN LET s1 == SyncCompleted([s EXCEPT !.syncStatus = rp.previousStatus])
             s2 == [s1 EXCEPT !.replays[r] = IdleReplay, !.obs.result = rp.result]
         IN  AfterReplay(Emit(s2, ResultEvent(rp.result)), rp.cont, rp.result)
    ELSE [s EXCEPT !.replays[r].allOperations = AllOperations(rp.pendingOps),
                   !.replays[r].i = 1, !.replays[r].pc = "call"]

\* a network error ends the loop
StopsReplayNever(outcome) == FALSE

StopsReplay(outcome) == outcome = "NetworkError"

\* one turn of the loop of processPendingOperations: the remote call for
\* allOperations[i] has settled with outcome
ProcessPendingOperationsCalled(s, r, outcome, saveOk) ==
  LET rp == s.replays[r]
      op == rp.allOperations[rp.i]
      s0 == [s EXCEPT !.obs.r = r, !.obs.op = op, !.obs.outcome = outcome]
      cleared == ClearPendingOperation(s0, op.todoId, op.type, saveOk)
      s1 == IF outcome = "true"
              THEN IF cleared.obs.threw
                     \* OfflineError of the save, caught by the loop
                     THEN [Catch(cleared) EXCEPT
                             !.replays[r].result.processed = @ + 2,
                             !.replays[r].result.failed = @ + 1,
                             !.unconfirmedWrites = @ \ {Write(op)}]
                     ELSE [cleared EXCEPT
                             !.replays[r].result.processed = @ + 1,
                             !.replays[r].result.succeeded = @ + 1,
                             !.unconfirmedWrites = @ \ {Write(op)}]
              ELSE [s0 EXCEPT !.replays[r].result.processed = @ + 1,
                              !.replays[r].result.failed = @ + 1]
  IN  IF StopsReplay(outcome) \/ rp.i = Len(rp.allOperations)
        THEN ProcessPendingOperationsFinish(s1, r)
        ELSE [s1 EXCEPT !.replays[r].i = @ + 1]


(***************************************************************************)
(* The coordinator's listeners on the monitor's events.                    *)
(***************************************************************************)
\* listener of electric-status-change
OnElectricStatusChange(s, online) ==
  IF online /\ s.syncStatus = "online" /\ ~s.isSyncing
    THEN SyncWithSupabaseStart(s, "none")
    ELSE s

\* listener of supabase-status-change
OnSupabaseStatusChange(s, online) ==
  IF online /\ s.syncStatus = "online" /\ HasPendingOperations(s)
    THEN ProcessPendingOperationsStart(s, "none")
    ELSE s

\* listener of status-change, up to its first await
OnStatusChange(s, status, previousStatus) ==
  LET s1 == [s EXCEPT !.syncStatus = status] IN
  IF previousStatus = "offline" /\ status = "online"
    THEN LET s2 == StartPeriodicSync(s1) IN
         IF s2.supabaseOnline
           THEN ProcessPendingOperationsStart(s2, "handler")
           ELSE IF s2.electricOnline THEN SyncWithSupabaseStart(s2, "none") ELSE s2
    ELSE IF previousStatus = "online" /\ status = "offline"
           THEN StopPeriodicSync(s1)
           ELSE s1

\* the listener after its await of processPendingOperations
OnStatusChangeAfterReplay(s) ==
  IF s.electricOnline THEN SyncWithSupabaseStart(s, "none") ELSE s

(***************************************************************************)
(* ConnectionMonitor.checkConnections from the probe results on.           *)
(***************************************************************************)
IsAppOfflineEither(electricFailures, supabaseFailures) ==
  \/ electricFailures >= maxConsecutiveFailures
  \/ supabaseFailures >= maxConsecutiveFailures

IsAppOffline(electricFailures, supabaseFailures) ==
  /\ electricFailures >= maxConsecutiveFailures
  /\ supabaseFailures >= maxConsecutiveFailures

\* the guard of the aggregate status-change event
StatusChangedAlways(previousStatus, status) == TRUE

StatusChanged(previousStatus, status) == previousStatus # status

\* The counters are only ever compared with maxConsecutiveFailures, so a
\* counter is kept up to MaxFailureCount >= maxConsecutiveFailures and
\* stays there.
IncrementNever(n) == n

Increment(n) == Min(n + 1, MaxFailureCount)

\* the guard of an upstream's status-change event; failures is the
\* upstream's counter after the poll
FlippedDebounced(was, is, failures) ==
  was # is /\ (is \/ failures >= maxConsecutiveFailures)

Flipped(was, is, failures) == was # is

\* what a poll has found
Probed(s, isElectricOnline, isSupabaseOnline) ==
  IF Watching(s, "poll")
    THEN [s EXCEPT !.obs.out = [isElectricOnline |-> isElectricOnline,
                                isSupabaseOnline |-> isSupabaseOnline,
                                emitted |-> <<>>]]
    ELSE s

CheckConnectionsComplete(s, isElectricOnline, isSupabaseOnline) ==
  LET wasElectricOnline == s.electricOnline
      wasSupabaseOnline == s.supabaseOnline
      ef == IF ~isElectricOnline THEN Increment(s.consecutiveElectricFailures) ELSE 0
      sf == IF ~isSupabaseOnline THEN Increment(s.consecutiveSupabaseFailures) ELSE 0
      s1 == [Probed(s, isElectricOnline, isSupabaseOnline) EXCEPT
               !.electricOnline = isElectricOnline,
               !.supabaseOnline = isSupabaseOnline,
               !.consecutiveElectricFailures = ef,
               !.consecutiveSupabaseFailures = sf]
      s2 == IF Flipped(wasElectricOnline, isElectricOnline, ef)
              THEN SetConnectionStatus(
                     OnElectricStatusChange(
                       Emit(s1, UpstreamEvent("electric-status-change", isElectricOnline)),
                       isElectricOnline),
                     isElectricOnline)
              ELSE s1
      s3 == IF Flipped(wasSupabaseOnline, isSupabaseOnline, sf)
              THEN OnSupabaseStatusChange(
                     Emit(s2, UpstreamEvent("supabase-status-change", isSupabaseOnline)),
                     isSupabaseOnline)
              ELSE s2
      previousStatus == s3.currentStatus
      isAppOffline == IsAppOffline(s3.consecutiveElectricFailures,
                                   s3.consecutiveSupabaseFailures)
      status == IF isAppOffline THEN "offline" ELSE "online"
      s4 == [s3 EXCEPT !.currentStatus = status]
  IN  IF StatusChanged(previousStatus, status)
        THEN OnStatusChange(Emit(s4, StatusEvent(status, previousStatus)),
                            status, previousStatus)
        ELSE s4

(***************************************************************************)
(* The upstreams.  Once writeStable holds, the write upstream answers      *)
(* every probe and accepts every write.                                    *)
(***************************************************************************)
WriteOutcomes == {"true", "false", "SupabaseError", "NetworkError"}

FetchOutcomes == {"entries", "ElectricError", "NetworkError"}

SupabaseProbes == IF writeStable THEN {TRUE} ELSE BOOLEAN

SupabaseWrites == IF writeStable THEN {"true"} ELSE WriteOutcomes

\* fs.writeFileSync fails or not.  In the runs of the whole system the disk
\* takes every write; SpecStore runs the store against a failing disk.
SaveOutcomes == BOOLEAN

DiskOk == {TRUE}

\* Date.now() of this run; the operations of an earlier run carry 0
Now == 1


(***************************************************************************)
(* forceSync and the local write path of TodoService.                      *)
(***************************************************************************)
\* what forceSync has done in this step: the probes, the status it has set
\* (or "none"), and its report once it has returned
Report(s, at, status, returned, syncOk) ==
  [s EXCEPT !.obs.step = "forceSync",
            !.obs.out = [at |-> at, electric |-> s.force.isElectricOnline,
                         supabase |-> s.force.isSupabaseOnline, status |-> status,
                         returned |-> returned,
                         operations |-> s.force.operations, sync |-> syncOk]]

\* forceSync returns its report
ForceSyncReturn(s, at, status, syncOk) ==
  [Report(s, at, status, TRUE, syncOk) EXCEPT !.force = IdleForce]

\* forceSync runs the replay although the write probe has failed
ForceSyncProbedEither(s, isSupabaseOnline) ==
  LET isElectricOnline == s.force.isElectricOnline
      isAppOnline == isElectricOnline \/ isSupabaseOnline
      status == IF isAppOnline THEN "online" ELSE "offline"
      s1 == Report([s EXCEPT !.syncStatus = status,
                             !.force.isSupabaseOnline = isSupabaseOnline],
                   "probed", status, FALSE, FALSE)
  IN  IF isAppOnline
        THEN ProcessPendingOperationsStart([s1 EXCEPT !.force.pc = "replay"], "force")
        ELSE ForceSyncReturn(s1, "probed", status, FALSE)

\* forceSync after both probes
ForceSyncProbed(s, isSupabaseOnline) ==
  LET isElectricOnline == s.force.isElectricOnline
      isAppOnline == isElectricOnline \/ isSupabaseOnline
      status == IF isAppOnline THEN "online" ELSE "offline"
      s1 == Report([s EXCEPT !.syncStatus = status,
                             !.force.isSupabaseOnline = isSupabaseOnline],
                   "probed", status, FALSE, FALSE)
  IN  IF isSupabaseOnline
        THEN ProcessPendingOperationsStart([s1 EXCEPT !.force.pc = "replay"], "force")
        ELSE IF isElectricOnline
               THEN SyncWithSupabaseStart([s1 EXCEPT !.force.pc = "sync"], "force")
               ELSE ForceSyncReturn(s1, "probed", status, FALSE)

\* forceSync after its await of processPendingOperations, which has
\* resolved with value
ForceSyncAfterReplay(s, value) ==
  LET s1 == Report([s EXCEPT !.force.operations = value], "replayed", "none",
                   FALSE, FALSE)
  IN  IF s1.force.isElectricOnline
        THEN SyncWithSupabaseStart([s1 EXCEPT !.force.pc = "sync"], "force")
        ELSE ForceSyncReturn(s1, "replayed", "none", FALSE)

\* forceSync after its await of syncWithSupabase: a rejection is caught and
\* logged, and the report keeps its empty sync part
ForceSyncAfterSync(s, ok) == ForceSyncReturn(s, "synced", "none", ok)

\* the catch block of syncWithSupabase after its await of forceCheck
SyncWithSupabaseAfterForceCheck(s) ==
  LET s2 == ClearIsSyncing([s EXCEPT !.syncStatus = s.currentStatus,
                                     !.sync = IdleSync])
  IN  AfterSync(Cycle(s2, "NetworkError", TRUE), s.sync.cont, FALSE)

\* addTodo / toggleTodo / deleteTodo store the write as a pending operation;
\* when the first attempt throws inside the try block of the remote write,
\* its catch block stores it again
StorePending(s, timestamp, saveOk, retry, retryOk) ==
  LET w == s.write
      s1 == AddPendingOperation(s, w.type, w.todoId, w.data, timestamp, saveOk)
      s2 == IF s1.obs.threw /\ retry
              THEN AddPendingOperation(Catch(s1), w.type, w.todoId, w.data,
                                       timestamp, retryOk)
              ELSE s1
      \* the write returns its success value unless the store has thrown
      s3 == IF s2.obs.threw
              THEN s2
              ELSE [s2 EXCEPT !.unconfirmedWrites = @ \cup {Write(w)}]
  IN  [s3 EXCEPT !.write = IdleWrite]

(***************************************************************************)
(* Initial state: every service constructed, initialize() not yet called.  *)
(***************************************************************************)
\* a queue left by an earlier run: neither in the order of the types nor in
\* the order of the timestamps
InitQueue ==
  <<Op("update", 2, "b", 1), Op("delete", 2, NoData, 0), Op("update", 1, "a", 0),
    Op("create", 1, "a", 1)>>

\* the file an earlier run left: none, or a create made while offline
InitStores == {MissingStore, JsonStore(<<Op("create", 2, "a", 0)>>)}

InitWatching(files, cursorFiles, dbs, bodies, step, watch) ==
  /\ currentStatus = "offline"
  /\ consecutiveElectricFailures = 0
  /\ consecutiveSupabaseFailures = 0
  /\ electricOnline = FALSE
  /\ supabaseOnline = FALSE
  /\ checkInterval = FALSE
  /\ isOnline = FALSE
  /\ syncState \in cursorFiles
  /\ syncOffset = LoadSyncState(syncState).syncOffset
  /\ syncHandle = LoadSyncState(syncState).syncHandle
  /\ fetch = IdleFetch
  /\ db \in dbs
  /\ rawEntries \in bodies
  /\ syncStatus = "offline"
  /\ isSyncing = FALSE
  /\ syncIntervalTimer = FALSE
  /\ store \in files
  /\ pendingOperations = LoadPendingOperations(store)
  /\ polls = 0
  /\ replays = [r \in Slots |-> IdleReplay]
  /\ sync = IdleSync
  /\ force = IdleForce
  /\ write = IdleWrite
  /\ micro = <<>>
  /\ initPc = "new"
  /\ writesLeft = MaxWrites
  /\ newIdUsed = FALSE
  /\ writeStable = FALSE
  /\ unconfirmedWrites = {}
  /\ checks = NoChecks
  /\ obs = [NoObs EXCEPT !.step = step, !.watch = watch]

InitWith(files, cursorFiles, dbs, bodies, step) ==
  InitWatching(files, cursorFiles, dbs, bodies, step, {})

Init == InitWith(InitStores, {MissingState}, {EmptyDb}, {EmptyBody}, "none")

\* a step of the model stays within the bounds
Step(s) == ~s.obs.overflow /\ Apply(s)

Ready == micro = <<>> /\ initPc = "done"

\* a timer that is armed fires whether or not dispose() has been called
TimersRun == micro = <<>> /\ initPc \in {"done", "disposed"}

(***************************************************************************)
(* Actions.                                                                *)
(***************************************************************************)
\* SyncCoordinator.initialize up to the await of electricClient.initialize()
InitializeStart ==
  /\ micro = <<>> /\ initPc = "new"
  /\ Step([Begin("InitializeStart") EXCEPT !.initPc = "probe"])

\* the rest of initialize: connectionMonitor.start() and the first status
InitializeProbed ==
  /\ micro = <<>> /\ initPc = "probe"
  /\ \E online \in BOOLEAN :
       LET s1 == [Begin("InitializeProbed") EXCEPT !.isOnline = online,
                                                   !.initPc = "done"]
           s2 == [CheckConnectionsStart(s1) EXCEPT !.checkInterval = TRUE]
           s3 == [s2 EXCEPT !.syncStatus = s2.currentStatus]
       IN  Step(IF s3.syncStatus = "online"
                  THEN SyncWithSupabaseStart(StartPeriodicSync(s3), "none")
                  ELSE s3)

\* the monitor's timer fires
MonitorTick ==
  /\ TimersRun /\ checkInterval /\ polls < MaxPolls
  /\ Step(CheckConnectionsStart(Begin("MonitorTick")))

\* both probes of a poll have settled
PollComplete ==
  /\ micro = <<>> /\ polls > 0
  /\ \E e \in BOOLEAN, sb \in SupabaseProbes, i \in Places("poll") :
       Step(CheckConnectionsComplete(
              Written([Begin("poll") EXCEPT !.polls = @ - 1], i), e, sb))

\* the probes of the forceCheck() awaited by a failed cycle have settled
ForceCheckComplete ==
  /\ micro = <<>> /\ sync.pc = "forceCheck"
  /\ \E e \in BOOLEAN, sb \in SupabaseProbes, i \in Places("force") :
       Step(Resume(CheckConnectionsComplete(
                     Written([Begin("poll") EXCEPT !.sync.pc = "checked"], i), e, sb),
                   "afterForceCheck", "none", TRUE))

\* The coordinator's interval timer fires and its callback starts a cycle.
\* Whether syncInterval has passed since lastSyncTime is a matter of the
\* clock: a tick that finds it has not does nothing and is left out.
PeriodicTick ==
  /\ TimersRun /\ syncIntervalTimer
  /\ syncStatus = "online" /\ ~isSyncing
  /\ Step(SyncWithSupabaseStart(Begin("PeriodicTick"), "none"))

\* the request of fetchShapeLog has settled
SyncFetched ==
  /\ micro = <<>> /\ sync.pc = "fetch"
  /\ \E outcome \in FetchOutcomes, applyOk \in BOOLEAN :
       Step(IF outcome = "entries"
              THEN SyncWithSupabaseFinish(Begin("SyncFetched"), applyOk)
              ELSE SyncWithSupabaseFailed(Begin("SyncFetched"), outcome))

\* the connection check of a replay has settled
ReplayProbed(r) ==
  /\ micro = <<>> /\ replays[r].pc = "probe"
  /\ \E isConnected \in SupabaseProbes :
       Step(ProcessPendingOperationsProbed(Begin("ReplayProbed"), r, isConnected))

\* the remote call of a replay has settled
ReplayCalled(r) ==
  /\ micro = <<>> /\ replays[r].pc = "call"
  /\ \E outcome \in SupabaseWrites, saveOk \in DiskOk :
       Step(ProcessPendingOperationsCalled(Begin("ReplayCalled"), r, outcome, saveOk))

\* the user asks for a sync
ForceSyncStart ==
  /\ Ready /\ force.pc = "idle"
  /\ Step([Begin("ForceSyncStart") EXCEPT !.force.pc = "probeElectric"])

ForceSyncProbedElectric ==
  /\ micro = <<>> /\ force.pc = "probeElectric"
  /\ \E online \in BOOLEAN :
       Step(SetConnectionStatus(
              [Begin("ForceSyncProbedElectric") EXCEPT
                 !.force.isElectricOnline = online, !.force.pc = "probeSupabase"],
              online))

ForceSyncProbedSupabase ==
  /\ micro = <<>> /\ force.pc = "probeSupabase"
  /\ \E online \in SupabaseProbes :
       Step(ForceSyncProbed(Begin("forceSync"), online))

\* dispose(): both timers are cleared; ElectricClient.dispose() only logs.
\* The model's user asks for nothing after it.
Dispose ==
  /\ Ready
  /\ Step([StopPeriodicSync(Begin("Dispose")) EXCEPT !.checkInterval = FALSE,
                                                     !.initPc = "disposed"])

\* getAllTodos syncs first when the status is online (a call during a
\* cycle returns at once and changes nothing)
GetAllTodos ==
  /\ Ready /\ syncStatus = "online" /\ ~isSyncing
  /\ Step(SyncWithSupabaseStart(Begin("GetAllTodos"), "none"))

\* addTodo, toggleTodo or deleteTodo up to the await of checkConnection()
LocalWrite ==
  /\ Ready /\ write.pc = "idle" /\ writesLeft > 0
  /\ \E type \in Types :
       LET todoId == IF type = "create" THEN NewId ELSE 1 IN
       /\ type = "create" => ~newIdUsed
       /\ Step([Begin("LocalWrite") EXCEPT
                  !.write = [pc |-> "probe", type |-> type, todoId |-> todoId,
                             data |-> IF type = "delete" THEN NoData ELSE "b"],
                  !.writesLeft = @ - 1,
                  !.newIdUsed = @ \/ type = "create"])

\* the connection check of a local write has settled
LocalWriteProbed ==
  /\ micro = <<>> /\ write.pc = "probe"
  /\ \E online \in SupabaseProbes, saveOk \in DiskOk :
       Step(IF online
              THEN [Begin("LocalWriteProbed") EXCEPT !.write.pc = "remote"]
              ELSE StorePending(Begin("LocalWriteQueued"), Now, saveOk,
                                FALSE, FALSE))

\* the remote write of a local write has settled
LocalWriteCalled ==
  /\ micro = <<>> /\ write.pc = "remote"
  /\ \E outcome \in SupabaseWrites, saveOk \in DiskOk, retryOk \in DiskOk :
       Step(IF outcome = "true"
              THEN [Begin("LocalWriteCalled") EXCEPT !.write = IdleWrite]
              ELSE StorePending(Begin("LocalWriteQueued"), Now, saveOk,
                                outcome = "false", retryOk))

\* from now on the write upstream is reachable and accepts every write
Stabilize ==
  /\ Ready /\ ~writeStable
  /\ Step([Begin("Stabilize") EXCEPT !.writeStable = TRUE])

\* the next microtask
Microtask ==
  /\ micro # <<>>
  /\ LET m == Head(micro)
         s == [Begin("Microtask") EXCEPT !.micro = Tail(@)]
     IN  Step(CASE m.k = "syncEntries" -> SyncWithSupabaseFinish(s, TRUE)
                [] m.k = "afterForceCheck" -> SyncWithSupabaseAfterForceCheck(s)
                [] m.k = "afterSync" -> ForceSyncAfterSync(s, m.ok)
                [] m.k = "afterReplay" /\ m.cont = "handler" -> OnStatusChangeAfterReplay(s)
                [] m.k = "afterReplay" /\ m.cont = "force" ->
                     ForceSyncAfterReplay(s, m.value))

\* the engine on its own: monitor, timers, listeners, replays and cycles
Next ==
  \/ InitializeStart
  \/ InitializeProbed
  \/ MonitorTick
  \/ PollComplete
  \/ ForceCheckComplete
  \/ PeriodicTick
  \/ SyncFetched
  \/ \E r \in Slots : ReplayProbed(r)
  \/ \E r \in Slots : ReplayCalled(r)
  \/ GetAllTodos
  \/ Microtask

\* the engine with a user who asks for a sync
NextForce ==
  \/ Next
  \/ ForceSyncStart
  \/ ForceSyncProbedElectric
  \/ ForceSyncProbedSupabase

Spec == Init /\ [][Next]_vars

\* The engine from the moment on which the write upstream stays reachable
\* and accepts every write.  Timers keep firing and continuations run; a
\* request settles and its callback runs although microtasks are served
\* first, so the callbacks are strongly fair.
NextLive ==
  \/ Next
  \/ Stabilize

Fairness ==
  /\ WF_vars(InitializeStart)
  /\ SF_vars(InitializeProbed)
  /\ SF_vars(MonitorTick)
  /\ SF_vars(PollComplete)
  /\ SF_vars(ForceCheckComplete)
  /\ SF_vars(PeriodicTick)
  /\ SF_vars(SyncFetched)
  /\ \A r \in Slots : SF_vars(ReplayProbed(r))
  /\ \A r \in Slots : SF_vars(ReplayCalled(r))
  /\ WF_vars(Microtask)

LiveSpec == Init /\ [][NextLive]_vars /\ Fairness

SpecForce == Init /\ [][NextForce]_vars

\* The engine with an empty queue: no replay ever starts, and the monitor,
\* the timers, the listeners and the cycles run as in Spec.  These runs
\* record the outcome of each step of a cycle and the findings of each poll.
InitMonitor ==
  InitWatching({MissingStore}, {MissingState}, {EmptyDb}, {EmptyBody}, "none",
               {"cycle", "poll"})

NextMonitor ==
  \/ InitializeStart
  \/ InitializeProbed
  \/ MonitorTick
  \/ PollComplete
  \/ ForceCheckComplete
  \/ PeriodicTick
  \/ SyncFetched
  \/ GetAllTodos
  \/ Microtask

SpecMonitor == InitMonitor /\ [][NextMonitor]_vars

\* the engine with an empty queue, with the history of the calls of
\* checkConnections
InitPolls ==
  InitWatching({MissingStore}, {MissingState}, {EmptyDb}, {EmptyBody}, "none",
               {"order"})

SpecPolls == InitPolls /\ [][NextMonitor]_vars

\* the engine, disposed of at some moment
NextDispose ==
  \/ Next
  \/ Dispose

SpecDispose == Init /\ [][NextDispose]_vars

\* The user asks for syncs and reads the list while the monitor's timer is
\* quiet: the only polls that complete are the rechecks of failed cycles.
NextForceSync ==
  \/ InitializeStart
  \/ InitializeProbed
  \/ ForceSyncStart
  \/ ForceSyncProbedElectric
  \/ ForceSyncProbedSupabase
  \/ \E r \in Slots : ReplayProbed(r)
  \/ \E r \in Slots : ReplayCalled(r)
  \/ SyncFetched
  \/ ForceCheckComplete
  \/ GetAllTodos
  \/ Microtask

SpecForceSync == Init /\ [][NextForceSync]_vars

(***************************************************************************)
(* Replays on their own: the queue of an earlier run is replayed on the    *)
(* user's request while the user goes on writing.  The monitor's probes    *)
(* do not settle in these runs, so no listener of the monitor is called.   *)
(***************************************************************************)
ReplayStores == {JsonStore(InitQueue), JsonStore(<<Op("update", 1, "a", 0)>>)}

InitReplay == InitWith(ReplayStores, {MissingState}, {EmptyDb}, {EmptyBody}, "none")

NextReplay ==
  \/ InitializeStart
  \/ InitializeProbed
  \/ ForceSyncStart
  \/ ForceSyncProbedElectric
  \/ ForceSyncProbedSupabase
  \/ \E r \in Slots : ReplayProbed(r)
  \/ \E r \in Slots : ReplayCalled(r)
  \/ SyncFetched
  \/ LocalWrite
  \/ LocalWriteProbed
  \/ LocalWriteCalled
  \/ Microtask

SpecReplay == InitReplay /\ [][NextReplay]_vars

\* the remote call of a replay has settled, and the write of the queue's
\* file in clearPendingOperation may fail
ReplayCalledSaving(r) ==
  /\ micro = <<>> /\ replays[r].pc = "call"
  /\ \E outcome \in SupabaseWrites, saveOk \in SaveOutcomes :
       Step(ProcessPendingOperationsCalled(Begin("ReplayCalled"), r, outcome, saveOk))

\* the replays of forceSync with a disk that may fail
NextReplaySaving ==
  \/ InitializeStart
  \/ InitializeProbed
  \/ ForceSyncStart
  \/ ForceSyncProbedElectric
  \/ ForceSyncProbedSupabase
  \/ \E r \in Slots : ReplayProbed(r)
  \/ \E r \in Slots : ReplayCalledSaving(r)
  \/ SyncFetched
  \/ Microtask

SpecReplaySaving == InitReplay /\ [][NextReplaySaving]_vars


(***************************************************************************)
(* The store on its own: any caller enqueues and removes, the disk may     *)
(* fail, the process may restart.  The file found at the first start is    *)
(* missing, unreadable, or the queue an earlier run saved.                 *)
(***************************************************************************)
MaxQueue == 2        \* operations the queue holds in SpecStore

StoreIds == {1, 2}

\* the arguments of the enqueue calls: type, todoId, data
StoreCalls ==
  {<<"create", 1, "a">>, <<"create", 1, NoData>>,
   <<"update", 1, "a">>, <<"update", 1, "b">>, <<"update", 1, NoData>>,
   <<"delete", 1, NoData>>, <<"delete", 1, "a">>,
   <<"update", 2, "a">>}

StoreFiles ==
  {MissingStore, CorruptStore, JsonStore(<<>>), JsonStore(<<Op("update", 1, "a", 0)>>)}

InitStore == InitWith(StoreFiles, {MissingState}, {EmptyDb}, {EmptyBody}, "restart")

\* addPendingOperation(type, todoId, data)
StoreEnqueue ==
  \E call \in StoreCalls, ok \in SaveOutcomes :
    LET s == AddPendingOperation(Begin("enqueue"), call[1], call[2], call[3], Now, ok)
    IN  /\ Len(s.pendingOperations) <= MaxQueue
        /\ Step(s)

\* clearPendingOperation(todoId, type?)
StoreRemove ==
  \E todoId \in StoreIds, type \in Types \cup {NoType}, ok \in SaveOutcomes :
    Step(ClearPendingOperation(Begin("remove"), todoId, type, ok))

\* the process ends and a new one constructs the service
StoreRestart ==
  Step([Begin("restart") EXCEPT !.pendingOperations = LoadPendingOperations(store)])

NextStore ==
  \/ StoreEnqueue
  \/ StoreRemove
  \/ StoreRestart

SpecStore == InitStore /\ [][NextStore]_vars

\* what a caller does to the array it has received
CopyChanges == {"push", "pop", "reverse"}

\* getPendingOperations() and a change of the returned array
StoreList ==
  \E change \in CopyChanges : Step(ListAndChange(Begin("list"), change))

NextList ==
  \/ StoreEnqueue
  \/ StoreList

\* the service after its constructor has loaded the file
InitList ==
  InitWith({MissingStore, JsonStore(<<Op("update", 1, "a", 0)>>)},
           {MissingState}, {EmptyDb}, {EmptyBody}, "restart")

SpecList == InitList /\ [][NextList]_vars

(***************************************************************************)
(* The feed client on its own: pulls one after the other, against a feed   *)
(* that answers, refuses or goes away, with a disk that may fail and a     *)
(* process that may restart at any point.                                  *)
(***************************************************************************)
FeedFiles == {MissingState, CorruptState, JsonState("42", "h1")}

InitFeed == InitWith({MissingStore}, FeedFiles, {EmptyDb}, {EmptyBody}, "restart")

\* ElectricClient.initialize: the connection check sets isOnline
FeedInitialize ==
  /\ fetch.pc = "idle"
  /\ \E online \in BOOLEAN :
       Step(SetConnectionStatus(Begin("FeedInitialize"), online))

\* fetchShapeLog is called
FeedPull ==
  /\ fetch.pc = "idle"
  /\ Step(FetchShapeLogStart(Begin("pull")))

\* the request has settled
FeedResponded ==
  /\ fetch.pc = "request"
  /\ \E response \in Responses, saveOk \in SaveOutcomes :
       Step(FetchShapeLogResponded(Begin("pull"), response, saveOk))

\* the read of the body has settled
FeedBodyRead ==
  /\ fetch.pc = "json"
  /\ \E body \in Bodies :
       Step(FetchShapeLogRead(Begin("pull"), body))

\* resetSyncOffset is called between two pulls
FeedReset ==
  /\ fetch.pc = "idle"
  /\ \E ok \in SaveOutcomes :
       Step(ResetSyncOffset(Begin("FeedReset"), ok))

\* the process ends and a new one constructs the client
FeedRestart ==
  Step([Begin("restart") EXCEPT
          !.isOnline = FALSE,
          !.syncOffset = LoadSyncState(syncState).syncOffset,
          !.syncHandle = LoadSyncState(syncState).syncHandle,
          !.fetch = IdleFetch])

NextFeed ==
  \/ FeedInitialize
  \/ FeedPull
  \/ FeedResponded
  \/ FeedBodyRead
  \/ FeedReset
  \/ FeedRestart

SpecFeed == InitFeed /\ [][NextFeed]_vars

(***************************************************************************)
(* The apply step on its own: a table of any content takes one batch of a  *)
(* pull, at one instant or another.  Each run applies one batch to the     *)
(* table it starts with; the tables it starts with are all the tables.     *)
(***************************************************************************)
Rows == [title : {"a", "b"}, completed : {0, 1}, created_at : {"T0", "T1"}]

InitDbs == UNION {[ids -> Rows] : ids \in SUBSET RowIds}

ApplyEntryInputs ==
  {Entry(operation, id, value) :
     operation \in {"insert", "update"}, id \in RowIds, value \in EntryValues}
  \cup {Entry("delete", id, NoValue) : id \in RowIds}

\* the batches applied: every entry alone, and a few longer ones
Batches ==
  {<<e>> : e \in ApplyEntryInputs}
  \cup {<<>>,
        <<Entry("delete", 1, NoValue), Entry("delete", 1, NoValue)>>,
        <<Entry("delete", 1, NoValue), Entry("delete", 2, NoValue)>>,
        <<Entry("insert", 1, [title |-> "a", completed |-> "true", created_at |-> "T0"]),
          Entry("update", 1, [title |-> JsNull, completed |-> Missing, created_at |-> Missing]),
          Entry("delete", 2, NoValue)>>}

InitApply == InitWith({MissingStore}, {MissingState}, InitDbs, {EmptyBody}, "none")

\* a cycle applies the entries of its pull
ApplyChanges ==
  /\ obs.step # "apply"
  /\ \E entries \in Batches, now \in Clock :
       Step(ApplyPulled(Begin("apply"), entries, now))

NextApply == ApplyChanges

SpecApply == InitApply /\ [][NextApply]_vars

(***************************************************************************)
(* The decoder on its own: it is handed any body a pull may have parsed,   *)
(* one body each run.                                                      *)
(***************************************************************************)
MaxBatch == 2        \* elements of the body of a pull

RawHeaders ==
  {NoHeaders, Headers(Absent, Absent), Headers("up-to-date", Absent),
   Headers(Absent, "insert"), Headers(Absent, "delete")}

RawKeys ==
  {NoKey, NumberKey,
   StringKey(<<>>),
   StringKey(<<"1">>),
   StringKey(<<Quote, "t", Quote, Slash, Quote, "1", Quote>>),
   StringKey(<<"a", Slash, "b", Slash, "2">>),
   StringKey(<<"t", Slash>>),
   StringKey(<<"t", Slash, Quote, Quote>>)}

RawValues == {Absent, "row"}

RawEntries ==
  {Primitive("null"), Primitive("number")}
  \cup {RawEntry(h, k, v) : h \in RawHeaders, k \in RawKeys, v \in RawValues}

\* the bodies of at most max elements, and two that are no arrays
RawBodies(max) ==
  {NotArray("null"), NotArray("object")}
  \cup {JsonArray(items) : items \in UNION {[1..n -> RawEntries] : n \in 0..max}}

InitDecode ==
  InitWith({MissingStore}, {MissingState}, {EmptyDb}, RawBodies(MaxBatch), "none")

\* the cycle decodes the body of its pull
Decode ==
  /\ obs.step # "decode"
  /\ LET d == ProcessShapeLogEntries(rawEntries) IN
     Step([Begin("decode") EXCEPT !.obs.threw = d.threw,
                                  !.obs.out = [results |-> d.results]])

NextDecode == Decode

SpecDecode == InitDecode /\ [][NextDecode]_vars

(***************************************************************************)
(* Properties of the pending-operation store.                              *)
(***************************************************************************)
SamePair(a, b) == a.todoId = b.todoId /\ a.type = b.type

\* C3: the queue never holds two operations of one (todoId, type) pair, and
\* after an enqueue the entry of the pair is the operation just enqueued
C3_OnePerPairLatestWins ==
  /\ \A i, j \in 1..Len(pendingOperations) :
       i # j => ~SamePair(pendingOperations[i], pendingOperations[j])
  /\ obs.step = "enqueue" /\ obs.op # NoOp =>
       \E i \in 1..Len(pendingOperations) : pendingOperations[i] = obs.op

\* an enqueue has replaced the entry of its pair in a queue of two
C3_Witness ==
  /\ obs.step = "enqueue" /\ obs.index >= 1
  /\ Len(pendingOperations) = 2
  /\ pendingOperations[obs.index].data = "b"

\* the queue the file stands for: a missing or unreadable file is empty
Stored == IF store.kind = "json" THEN store.ops ELSE <<>>

\* a start loads what the file stands for
C4_LoadsFileOrEmpty == obs.step = "restart" => pendingOperations = Stored

OfflineCondition ==
  IsAppOffline(consecutiveElectricFailures, consecutiveSupabaseFailures)

\* C7: with the threshold 3 the aggregate status goes from online to offline
\* only in a step after which both failure counters are at least 3, and a
\* poll that starts online and leaves both counters at 3 or more ends offline
C7_OfflineNeedsBothThresholds ==
  [][/\ currentStatus = "online" /\ currentStatus' = "offline" =>
          /\ consecutiveElectricFailures' >= 3
          /\ consecutiveSupabaseFailures' >= 3
     /\ /\ currentStatus = "online" /\ obs'.step = "poll"
        /\ consecutiveElectricFailures' >= 3
        /\ consecutiveSupabaseFailures' >= 3
        => currentStatus' = "offline"]_vars

\* a poll has taken the aggregate status from online to offline
C7_Witness ==
  /\ obs.step = "poll" /\ currentStatus = "offline"
  /\ obs.events = <<StatusEvent("offline", "online")>>
  /\ consecutiveElectricFailures >= 3 /\ consecutiveSupabaseFailures >= 3

NeverPolled ==
  /\ currentStatus = "offline"
  /\ consecutiveElectricFailures = 0 /\ consecutiveSupabaseFailures = 0

Settled(status) == status \in {"online", "offline"}

InFlight ==
  Cardinality({r \in Slots : replays[r].pc # "idle"})
    + (IF sync.pc # "idle" THEN 1 ELSE 0)

\* C1: at most one sync operation, a replay of the queue or a sync cycle,
\* is in flight at any time
C1_AtMostOneInFlight == InFlight <= 1

\* the place of an operation in a queue without duplicates; 0 if absent
Position(q, op) ==
  IF \E k \in 1..Len(q) : q[k] = op
    THEN CHOOSE k \in 1..Len(q) : q[k] = op
    ELSE 0

Rank(type) == CASE type = "create" -> 1 [] type = "update" -> 2 [] OTHER -> 3

\* C5: a replay issues its remote calls in the order of its batch: every
\* operation of the snapshot once, creates before updates before deletes,
\* and operations of one type in the order they have in the queue, whatever
\* their timestamps are
C5_ReplayOrder ==
  \A r \in Slots :
    replays[r].pc = "call" =>
      LET batch == replays[r].allOperations
          snapshot == replays[r].pendingOps
      IN  /\ Len(batch) = Len(snapshot)
          /\ \A k \in 1..Len(snapshot) : Position(batch, snapshot[k]) >= 1
          /\ \A j, k \in 1..Len(batch) :
               j < k =>
                 /\ Rank(batch[j].type) <= Rank(batch[k].type)
                 /\ batch[j].type = batch[k].type =>
                      Position(snapshot, batch[j]) < Position(snapshot, batch[k])

\* a replay of the queue of the earlier run has come to its last call, the
\* delete that was second in the queue, after the update with the later
\* timestamp and before the one with the earlier
C5_Witness ==
  \E r \in Slots :
    /\ replays[r].pc = "call" /\ replays[r].i = 4
    /\ replays[r].pendingOps = InitQueue
    /\ replays[r].allOperations[4] = InitQueue[2]
    /\ replays[r].allOperations[2].timestamp > replays[r].allOperations[3].timestamp

\* C6: a remote call of a replay that is rejected (it returns false or
\* throws an error that is not a network error) is counted as failed, leaves
\* the queue as it is, and the replay goes on with the next operation; a
\* network error is counted as failed, leaves the queue as it is and ends
\* the replay at once
C6_RejectedContinuesNetworkStops ==
  [][\A r \in Slots :
       replays[r].pc = "call" /\ obs'.r = r /\ obs'.outcome # "true" =>
         LET rp == replays[r]
             last == rp.i = Len(rp.allOperations)
             ended == replays'[r].pc = "idle"
             failed == IF ended THEN obs'.result.failed ELSE replays'[r].result.failed
         IN  /\ pendingOperations' = pendingOperations
             /\ failed = rp.result.failed + 1
             /\ obs'.outcome = "NetworkError" => ended
             /\ obs'.outcome \in {"false", "SupabaseError"} /\ ~last =>
                  /\ replays'[r].pc = "call"
                  /\ replays'[r].i = rp.i + 1]_vars

\* a network error on the first call has ended a replay that had more
\* operations to send
C6_Witness ==
  /\ obs.outcome = "NetworkError" /\ obs.r >= 1
  /\ replays[obs.r].pc = "idle"
  /\ obs.result.total >= 2 /\ obs.result.processed = 1 /\ obs.result.failed = 1
  /\ Len(pendingOperations) >= obs.result.total

\* C2: the entry of a (todoId, type) pair leaves the queue only in a step
\* in which a remote write of the same type, todoId and payload has been
\* confirmed
C2_RemovedOnlyWhenOwnPayloadConfirmed ==
  [][\A k \in 1..Len(pendingOperations) :
       LET op == pendingOperations[k] IN
       (\A j \in 1..Len(pendingOperations') : ~SamePair(pendingOperations'[j], op)) =>
         /\ obs'.outcome = "true"
         /\ SamePair(obs'.op, op)
         /\ obs'.op.data = op.data]_vars

\* the operations a replay in flight has issued a remote call for
Sent(r) ==
  IF replays[r].pc = "call"
    THEN {replays[r].allOperations[k] : k \in 1..replays[r].i}
    ELSE {}

\* C9: a step in which the aggregate status goes from offline to online
\* with the write upstream healthy starts a replay of the whole queue, which
\* the pull of the transition waits for; no queued operation is sent by two
\* replays, and an operation whose call succeeds leaves the queue
C9_TransitionReplaysEachOnce ==
  /\ [][/\ ((\E k \in 1..Len(obs'.events) :
                obs'.events[k] = StatusEvent("online", "offline"))
             /\ supabaseOnline' /\ pendingOperations # <<>>)
            => (\E r \in Slots :
                  /\ replays[r].pc = "idle" /\ replays'[r].pc = "probe"
                  /\ replays'[r].cont = "handler"
                  /\ replays'[r].pendingOps = pendingOperations)
        /\ \A r \in Slots :
             (replays[r].pc = "call" /\ obs'.r = r /\ obs'.outcome = "true")
               => Position(pendingOperations', obs'.op) = 0]_vars
  /\ [](\A r1, r2 \in Slots : r1 # r2 => Sent(r1) \cap Sent(r2) = {})

\* C10: once the write upstream stays reachable and accepts every write,
\* the queue is eventually empty
C10_QueueEventuallyDrained ==
  [](writeStable => <>(pendingOperations = <<>>))

(***************************************************************************)
(* Properties of the local write path.                                     *)
(***************************************************************************)
\* C11: every local write that was reported as successful and whose remote
\* write has not been confirmed has a pending operation of its type for its
\* todo in the persisted queue
C11_ReportedWriteConfirmedOrQueued ==
  \A w \in unconfirmedWrites :
    \E k \in 1..Len(Stored) :
      Stored[k].type = w.type /\ Stored[k].todoId = w.todoId

(***************************************************************************)
(* The cursor of the feed client.                                          *)
(***************************************************************************)
\* the answer of the pull in hand carried both headers
Answered ==
  /\ obs.step = "pull" /\ obs.out.response = "ok"
  /\ Truthy(fetch.newOffset) /\ Truthy(fetch.newHandle)

\* C12: once a pull has an answer with offset o and handle h, and from then
\* until it has returned, the cursor in memory and the cursor a start would
\* load from the file are (o, h); a start takes the cursor of the file and
\* a request carries the cursor in memory
C12_CursorPersistedBeforeReturn ==
  /\ Answered =>
       /\ Cursor(syncOffset, syncHandle) = Cursor(fetch.newOffset, fetch.newHandle)
       /\ LoadSyncState(syncState) = Cursor(fetch.newOffset, fetch.newHandle)
  /\ obs.step = "restart" =>
       Cursor(syncOffset, syncHandle) = LoadSyncState(syncState)
  /\ fetch.pc = "request" =>
       Cursor(fetch.offset, fetch.handle) = Cursor(syncOffset, syncHandle)

\* C13: a pull answered with status 400 leaves the sentinel as the cursor in
\* memory and in the file and raises the protocol error
C13_InvalidCursorResets ==
  obs.step = "pull" /\ obs.out.response = "400" =>
    /\ obs.outcome = "ElectricError"
    /\ Cursor(syncOffset, syncHandle) = Cursor(InitialOffset, InitialHandle)
    /\ LoadSyncState(syncState) = Cursor(InitialOffset, InitialHandle)

\* C14: a pull answered with an error status raises the protocol error and
\* leaves isOnline as it was, so the next pull sends a request
C14_StatusErrorKeepsOnline ==
  [][obs'.step = "pull" /\ obs'.out.response \in {"400", "500"} =>
       /\ obs'.outcome = "ElectricError"
       /\ isOnline' = isOnline
       /\ isOnline']_vars

\* a pull answered with 400 has failed and the client is still online
C14_Witness ==
  /\ obs.step = "pull" /\ obs.out.response = "400" /\ obs.outcome = "ElectricError"
  /\ isOnline /\ fetch.pc = "idle"

\* C15: a pull whose request or whose read of the body fails at the
\* transport level raises the network error and leaves the cursor in memory
\* and the file as they were when the pull began
C15_TransportFailureKeepsCursor ==
  [][obs'.step = "pull" /\ (obs'.out.response = "transport" \/ obs'.out.body = "aborted") =>
       /\ obs'.outcome = "NetworkError"
       /\ Cursor(syncOffset', syncHandle') = fetch.before.cursor
       /\ syncState' = fetch.before.file]_vars

(***************************************************************************)
(* The apply step.                                                         *)
(***************************************************************************)
\* the table after one entry more, applied at the instant now
Applied(table, entry, now) ==
  ApplyEntry([db |-> table, inserts |-> 0, updates |-> 0, deletes |-> 0],
             entry, now).db

\* the step has applied a batch of the one entry of these operations
AppliedOne(operations) ==
  /\ obs'.step = "apply" /\ Len(obs'.out.entries) = 1
  /\ obs'.out.entries[1].operation \in operations

\* C16: the table an insert or update entry has been applied to is left as
\* it is by the same entry applied once more, then or later
C16_ApplyTwiceIsApplyOnce ==
  [][AppliedOne({"insert", "update"}) =>
       \A now \in Clock :
         now >= obs'.out.now => Applied(db', obs'.out.entries[1], now) = db']_vars

\* C17: a delete entry for a row of the table removes it and counts one
\* delete; for a row not in the table it changes nothing and counts none;
\* no other row changes
C17_DeleteRemovesOrTolerates ==
  [][AppliedOne({"delete"}) =>
       LET x == obs'.out.entries[1].id IN
       /\ ~HasRow(db', x)
       /\ obs'.out.counts.deletes = (IF HasRow(db, x) THEN 1 ELSE 0)
       /\ obs'.out.counts.total = obs'.out.counts.deletes
       /\ ~obs'.threw
       /\ \A y \in RowIds \ {x} :
            /\ HasRow(db', y) = HasRow(db, y)
            /\ HasRow(db, y) => db'[y] = db[y]]_vars

\* a delete has removed row 1 next to row 2, which is still there
C17_Witness ==
  /\ obs.step = "apply" /\ obs.out.entries = <<Entry("delete", 1, NoValue)>>
  /\ obs.out.counts.deletes = 1
  /\ ~HasRow(db, 1) /\ HasRow(db, 2)

(***************************************************************************)
(* The decoder.                                                            *)
(***************************************************************************)
\* the id of a key: what follows its last slash, without the quotes
IdOf(chars) ==
  LET slashes == {i \in 1..Len(chars) : chars[i] = Slash}
      from == IF slashes = {} THEN 1
              ELSE (CHOOSE i \in slashes : \A j \in slashes : j <= i) + 1
      part == SubSeq(chars, from, Len(chars))
      kept == {i \in 1..Len(part) : part[i] # Quote}
      Nth(k) == CHOOSE i \in kept : Cardinality({j \in kept : j <= i}) = k
  IN  [k \in 1..Cardinality(kept) |-> part[Nth(k)]]

\* the element is a data entry with an operation tag and a key with an id
WellFormed(e) ==
  /\ e.kind = "object"
  /\ e.headers.kind = "object"
  /\ e.headers.control = Absent
  /\ e.headers.operation # Absent
  /\ e.key.kind = "string"
  /\ IdOf(e.key.chars) # <<>>

\* C18: the decoder returns one processed entry for each well-formed
\* element of the body and none for the others, in the order of the body,
\* each with the operation, the id of the key and the value or null
C18_DecodesWellFormedInOrder ==
  obs.step = "decode" /\ rawEntries.kind = "array" =>
    LET items == rawEntries.items
        kept == {i \in 1..Len(items) : WellFormed(items[i])}
        Nth(k) == CHOOSE i \in kept : Cardinality({j \in kept : j <= i}) = k
    IN  /\ ~obs.threw
        /\ Len(obs.out.results) = Cardinality(kept)
        /\ \A k \in 1..Cardinality(kept) :
             /\ obs.out.results[k].operation = items[Nth(k)].headers.operation
             /\ obs.out.results[k].id = IdOf(items[Nth(k)].key.chars)
             /\ obs.out.results[k].value =
                  (IF items[Nth(k)].value = Absent THEN JsNull ELSE items[Nth(k)].value)

\* C19: the decoder raises for no body; a body that is no array gives the
\* empty result
C19_DecodeNeverRaises ==
  obs.step = "decode" =>
    /\ ~obs.threw
    /\ rawEntries.kind # "array" => obs.out.results = <<>>

(***************************************************************************)
(* The validation of enqueue.                                              *)
(***************************************************************************)
\* the step is a call of enqueue for these types without data
EnqueuedWithoutData(types) ==
  obs'.step = "enqueue" /\ obs'.out.call.type \in types /\ obs'.out.call.data = NoData

\* C20: an enqueue of a create or an update without data throws and leaves
\* the queue and the file as they were; an enqueue of a delete without data
\* puts the operation in the queue, and in the file unless the save fails
C20_PayloadRequiredButForDelete ==
  [][/\ EnqueuedWithoutData({"create", "update"}) =>
          /\ obs'.threw
          /\ pendingOperations' = pendingOperations
          /\ store' = store
     /\ EnqueuedWithoutData({"delete"}) =>
          /\ \E k \in 1..Len(pendingOperations') : pendingOperations'[k] = obs'.op
          /\ obs'.threw => store' = store
          /\ ~obs'.threw =>
               /\ store'.kind = "json"
               /\ store'.ops = pendingOperations']_vars

\* an update without data has been refused with an operation in the queue
C20_Witness ==
  /\ obs.step = "enqueue" /\ obs.threw
  /\ obs.out.call.type = "update" /\ obs.out.call.data = NoData
  /\ pendingOperations # <<>>
  /\ store.kind = "json" /\ store.ops = pendingOperations

(***************************************************************************)
(* forceSync.                                                              *)
(***************************************************************************)
\* a replay awaited by forceSync is running
ForceReplayInFlight ==
  \E r \in Slots : replays[r].pc # "idle" /\ replays[r].cont = "force"

\* forceSync has called syncWithSupabase in the step: a cycle is executing
\* or its promise has settled for forceSync
ForceSyncCalledSync ==
  \/ isSyncing' /\ sync'.cont = "force"
  \/ \E k \in 1..Len(micro') : micro'[k].k = "afterSync" /\ micro'[k].cont = "force"

C22_IsSyncingClearedOnEveryExit ==
  /\ sync.pc = "idle" => ~isSyncing
  /\ obs.step = "cycle" /\ obs.out.ended => ~isSyncing /\ sync.pc = "idle"

\* a cycle has ended with the SyncError of a failed local transaction
C22_Witness ==
  /\ obs.step = "cycle" /\ obs.out.ended /\ obs.out.outcome = "SyncError"
  /\ ~isSyncing

\* no cycle, replay or forceSync is in flight and no continuation is due
Quiet ==
  /\ initPc = "done" /\ micro = <<>>
  /\ sync.pc = "idle" /\ force.pc = "idle"
  /\ \A r \in Slots : replays[r].pc = "idle"

\* C23: whenever no cycle, replay or forceSync is in flight, the status of
\* the coordinator is the aggregate status of the monitor.  The formula
\* asks for it only while no poll of the monitor is pending either.
C23_StatusMirrorsMonitor == Quiet /\ polls = 0 => syncStatus = currentStatus

\* C24: while a cycle is pulling or applying, the status of the monitor and
\* of the coordinator is syncing, whatever polls complete meanwhile.
C24_SyncingHeldThroughCycle ==
  sync.pc \in {"fetch", "entries"} =>
    currentStatus = "syncing" /\ syncStatus = "syncing"

\* C25: after a cycle or a replay has ended the status is online or offline
\* again: the coordinator's status is not syncing while no cycle and no
\* replay is in flight and no poll of the monitor is pending.
C25_NoSyncingAtRest ==
  Quiet /\ polls = 0 => syncStatus # "syncing"

\* what the monitor holds about the two upstreams, and its status
Health ==
  <<electricOnline, supabaseOnline, consecutiveElectricFailures,
    consecutiveSupabaseFailures, currentStatus>>

\* C26: when the pull of a cycle fails with a NetworkError the cycle stays
\* open until one probe of both upstreams has completed and ends with the
\* status that probe has derived; when it fails with another error the
\* cycle ends at once, no probe is started, and the reachability, the
\* failure counters and the status of the monitor stay as they were.
C26_OnlyConnectivityFailureReprobes ==
  [][/\ obs'.step = "cycle" /\ obs'.out.outcome = "NetworkError" /\ sync.pc = "fetch" =>
          /\ ~obs'.out.ended /\ sync'.pc = "forceCheck" /\ isSyncing'
          /\ polls' = polls /\ Health' = Health
     /\ sync.pc = "forceCheck" /\ sync'.pc # "forceCheck" =>
          /\ obs'.step = "poll" /\ sync'.pc = "checked" /\ isSyncing'
          /\ currentStatus' \in {"online", "offline"}
          /\ currentStatus' = "offline" <=> OfflineCondition'
     /\ sync.pc = "checked" /\ sync'.pc # "checked" =>
          /\ obs'.step = "cycle" /\ obs'.out.ended
          /\ obs'.out.outcome = "NetworkError"
          /\ syncStatus' = currentStatus /\ Health' = Health
     /\ obs'.step = "cycle" /\ obs'.out.outcome \in {"ElectricError", "SyncError"} =>
          /\ obs'.out.ended /\ sync'.pc = "idle"
          /\ polls' = polls /\ Health' = Health]_vars

\* a cycle has ended after the recheck that followed its NetworkError, and
\* the recheck has found both upstreams unreachable for the third time
C26_Witness ==
  /\ obs.step = "cycle" /\ obs.out.ended /\ obs.out.outcome = "NetworkError"
  /\ syncStatus = "offline" /\ OfflineCondition

(***************************************************************************)
(* The listeners and the timer.  The timer is started by the listener of   *)
(* a change from offline to online only, so it runs while the monitor is   *)
(* offline only if the change that led to offline has not stopped it.      *)
(***************************************************************************)
\* C27: once the aggregate status has gone from online to offline, at once
\* or by way of syncing, the periodic sync timer is stopped: it does not
\* run while the monitor is offline and its listeners have returned.
C27_TimerStoppedWhileOffline ==
  currentStatus = "offline" /\ micro = <<>> => ~syncIntervalTimer

\* a replay has been started in the step
ReplayStarted ==
  \E r \in Slots : replays[r].pc = "idle" /\ replays'[r].pc # "idle"

\* C28: a poll that finds the write upstream reachable again while the
\* aggregate status is online and the queue is not empty starts a replay.
C28_RecoveredWriteUpstreamReplays ==
  [][/\ obs'.step = "poll"
     /\ ~supabaseOnline /\ supabaseOnline'
     /\ currentStatus = "online" /\ pendingOperations # <<>>
     => ReplayStarted]_vars

(***************************************************************************)
(* The polls of the monitor.                                               *)
(***************************************************************************)
\* the events of the two upstreams a poll has to emit, in their order
Flips(wasElectricOnline, wasSupabaseOnline, isElectricOnline, isSupabaseOnline) ==
  (IF wasElectricOnline # isElectricOnline
     THEN <<UpstreamEvent("electric-status-change", isElectricOnline)>> ELSE <<>>)
  \o (IF wasSupabaseOnline # isSupabaseOnline
        THEN <<UpstreamEvent("supabase-status-change", isSupabaseOnline)>> ELSE <<>>)

\* C29: a poll emits the status-change event of an upstream exactly when
\* the probe has found the upstream's reachability different from the
\* value the monitor held, whatever the failure counters are and whether
\* or not the aggregate status changes.
C29_UpstreamEventOnEveryFlip ==
  [][obs'.step = "poll" =>
       obs'.out.emitted =
         Flips(electricOnline, supabaseOnline,
               obs'.out.isElectricOnline, obs'.out.isSupabaseOnline)]_vars

\* a poll has found the feed upstream unreachable for the first time: its
\* event is emitted below the threshold, and the aggregate status stays
\* online without an event
C29_Witness ==
  /\ obs.step = "poll" /\ obs.events = <<>> /\ currentStatus = "online"
  /\ obs.out.emitted = <<UpstreamEvent("electric-status-change", FALSE)>>
  /\ consecutiveElectricFailures = 1

\* the counter of an upstream after a poll, from the counter before it
Counted(previous, probeOk) ==
  IF probeOk THEN 0
  ELSE IF previous < MaxFailureCount THEN previous + 1 ELSE MaxFailureCount

\* C30: after a poll the failure counter of an upstream is 0 if its probe
\* has succeeded and one more than before if it has failed (counted up to
\* MaxFailureCount), and the upstream is marked reachable exactly when its
\* counter is 0.
C30_CountersFollowProbes ==
  [][obs'.step = "poll" =>
       /\ consecutiveElectricFailures' =
            Counted(consecutiveElectricFailures, obs'.out.isElectricOnline)
       /\ consecutiveSupabaseFailures' =
            Counted(consecutiveSupabaseFailures, obs'.out.isSupabaseOnline)
       /\ electricOnline' <=> consecutiveElectricFailures' = 0
       /\ supabaseOnline' <=> consecutiveSupabaseFailures' = 0]_vars

\* a poll has found the write upstream unreachable for the second time and
\* the feed upstream reachable again
C30_Witness ==
  /\ obs.step = "poll"
  /\ ~obs.out.isSupabaseOnline /\ consecutiveSupabaseFailures = 2 /\ ~supabaseOnline
  /\ obs.out.isElectricOnline /\ consecutiveElectricFailures = 0 /\ electricOnline
  /\ obs.out.emitted = <<UpstreamEvent("electric-status-change", TRUE)>>

(***************************************************************************)
(* The batch and its transaction.                                          *)
(***************************************************************************)
\* the entries of a batch that do not fail when the batch is applied to
\* table, in their order
RECURSIVE NotFailed(_, _, _)
NotFailed(table, entries, now) ==
  IF entries = <<>> THEN <<>>
  ELSE IF Fails(table, Head(entries))
         THEN NotFailed(table, Tail(entries), now)
         ELSE <<Head(entries)>>
                \o NotFailed(Applied(table, Head(entries), now), Tail(entries), now)

\* table after the entries, none of which fails, have been applied in order
RECURSIVE AppliedAll(_, _, _)
AppliedAll(table, entries, now) ==
  IF entries = <<>> THEN table
  ELSE AppliedAll(Applied(table, Head(entries), now), Tail(entries), now)

C32_DataChangedOnlyOnChange ==
  [][obs'.step = "apply" =>
       LET result == obs'.out.result IN
       /\ obs'.out.notified = (result.processed > 0)
       /\ db' # db => obs'.out.notified
       /\ result.received = Len(obs'.out.entries)
       /\ result.processed = result.inserts + result.updates + result.deletes
       /\ result.processed <= result.received]_vars

\* a cycle has received two deletes of a row the table does not hold, and
\* has told nothing
C32_Witness ==
  /\ obs.step = "apply" /\ obs.out.result.received = 2
  /\ obs.out.result.processed = 0 /\ ~obs.out.notified
  /\ obs.out.entries[1].operation = "delete"

(***************************************************************************)
(* dispose and initialize.                                                 *)
(***************************************************************************)
\* a cycle has been started in the step
CycleStarted == sync.pc = "idle" /\ sync'.pc # "idle"

\* C33: once dispose() has been called no cycle and no replay is started,
\* by a timer or by the completion of a poll, a cycle or a replay that
\* was in flight.
C33_NothingStartsAfterDispose ==
  [][initPc = "disposed" => ~CycleStarted /\ ~ReplayStarted]_vars

\* C34: when calls of checkConnections overlap, the results of a call
\* that started earlier are never written over the results of a call that
\* started later.
C34_NoStaleProbeResults ==
  [][~checks.stale /\ checks'.stale
       => /\ electricOnline' = electricOnline
          /\ supabaseOnline' = supabaseOnline
          /\ currentStatus' = currentStatus]_vars

\* C35: initialize() of an application whose feed upstream answers the
\* probe of electricClient.initialize() arms the periodic timer and starts
\* a pull-and-apply cycle before it returns.
C35_FirstSyncInInitialize ==
  [][initPc = "probe" /\ initPc' = "done" /\ isOnline'
       => syncIntervalTimer' /\ sync'.pc # "idle"]_vars

\* the entries of q other than the one of the pair (type, todoId)
Others(q, type, todoId) ==
  LET Other(op) == ~(op.todoId = todoId /\ op.type = type)
  IN  SelectSeq(q, Other)

C37_ReplayCountsAddUp ==
  /\ obs.result.processed = obs.result.succeeded + obs.result.failed
  /\ obs.result.processed <= obs.result.total

\* C38: after every completed poll the client's own flag isOnline agrees
\* with the monitor's electricOnline where the monitor reports the feed
\* reachable: a reachable feed is never left short-circuited.
C38_ReachableFeedNotShortCircuited ==
  obs.step = "poll" /\ electricOnline => isOnline

\* C39: whenever the aggregate status has settled to Online, nothing in
\* flight, the periodic sync timer is armed.
C39_TimerArmedWhileOnline ==
  Quiet /\ polls = 0 /\ currentStatus = "online" => syncIntervalTimer

\* C40: the cursor in the file does not advance past entries that were not
\* handed to the apply step: when the body of a pull cannot be read or
\* parsed, the file is as it was when the pull began or holds the offset
\* the pull asked with, so that a later pull asks for the same entries again.
C40_CursorNotPastUnappliedEntries ==
  [][obs'.step = "pull" /\ obs'.out.body \in {"malformed", "aborted"}
       => \/ syncState' = fetch.before.file
          \/ LoadSyncState(syncState').syncOffset = fetch.offset]_vars

====
